---------------------------- MODULE Spec2Model ----------------------------
(***************************************************************************)
(* priceguard-crypto: the price forecasting engine of                      *)
(* src/services/ml_model.py (PricePredictionModel: prepare_features,       *)
(* train, predict_next_days) as a state machine.                           *)
(*                                                                         *)
(* Numbers.  Prices are small integers standing for float64 values, NaN    *)
(* is the float "not a number".  Means and variances are exact rationals   *)
(* [n, d] in lowest terms.  The rolling standard deviation is carried as   *)
(* its square (the sample variance): the square root is one-to-one on the  *)
(* non-negative reals, so equality of the carried value is equality of the *)
(* standard deviation.  Timestamps are whole hours since the epoch; a      *)
(* calendar date is the number of the day the hour falls in.               *)
(*                                                                         *)
(* Library code (pandas, scikit-learn) is modelled by its documented       *)
(* behaviour: sort_values with the default kind 'quicksort' is not a       *)
(* stable sort, so rows of equal timestamp come out in any order; the      *)
(* value the fitted regressor returns for a feature row is an input of     *)
(* the model, drawn from PredPrices.                                       *)
(***************************************************************************)
EXTENDS Integers, Sequences, FiniteSets, TLC

\* ------------------------------------------------------------------ bounds
MaxShort == 8      \* short histories have 0..MaxShort observations
MaxOver == 2       \* long histories have 20..20+MaxOver observations
MaxDays == 2       \* predict_next_days is called with days in 0..MaxDays

\* ------------------------------------------------------- program constants
MinHistory == 7        \* prepare_features: len(price_history) < 7 raises
Window == 7            \* rolling(window=7, min_periods=1)
SplitThreshold == 20   \* train: len(X) > 20 takes the 80/20 split
TestFifth == 5         \* test_size=0.2: one row in five is held out
HoursPerDay == 24      \* timedelta(days=i) in hours
NaN == -1              \* float('nan') as a price

ModelTypes == {"linear", "tree"}
Selectors == ModelTypes \cup {"forest"}
PredPrices == {2, 9}

\* --------------------------------------------------------------- rationals
RECURSIVE GCD(_, _)
GCD(a, b) == IF b = 0 THEN a ELSE GCD(b, a % b)

Abs(x) == IF x < 0 THEN -x ELSE x

\* The rational n/d (d > 0) in lowest terms.
Rat(n, d) ==
    LET g == GCD(Abs(n), d)
    IN  [n |-> n \div g, d |-> d \div g]

NaNRat == [n |-> 0, d |-> 0]
ZeroRat == [n |-> 0, d |-> 1]

RECURSIVE SumSeq(_)
SumSeq(s) == IF s = <<>> THEN 0 ELSE Head(s) + SumSeq(Tail(s))

RECURSIVE SumSq(_)
SumSq(s) == IF s = <<>> THEN 0 ELSE Head(s) * Head(s) + SumSq(Tail(s))

IsFinite(p) == p # NaN
Finite(w) == SelectSeq(w, IsFinite)

\* ------------------------------------------------------------------ inputs
\* The observations a caller holds: n rows, timestamps and prices following
\* one of a few shapes.  "daily" and "hourly" have pairwise distinct
\* timestamps; "tied" repeats the first and the last timestamp once.
Shapes == {<<"daily", "zigzag">>, <<"hourly", "const">>,
           <<"tied", "zigzag">>, <<"daily", "nanlast">>}

TsOf(shape, i, n) ==
    CASE shape = "daily"  -> HoursPerDay * (i - 1) + 13
      [] shape = "hourly" -> (i - 1) + 20
      [] shape = "tied"   -> IF i = 2 THEN 13
                             ELSE IF i = n /\ n > 2
                                  THEN HoursPerDay * (n - 2) + 13
                                  ELSE HoursPerDay * (i - 1) + 13

PriceOf(shape, i, n) ==
    CASE shape = "const"   -> 5
      [] shape = "zigzag"  -> 1 + ((3 * i) % 7)
      [] shape = "nanlast" -> IF i = n THEN NaN ELSE 1 + ((3 * i) % 7)

Lengths == (0 .. MaxShort) \cup (SplitThreshold .. SplitThreshold + MaxOver)

Observations(n, ts, ps) ==
    [i \in 1 .. n |-> [timestamp |-> TsOf(ts, i, n), price |-> PriceOf(ps, i, n)]]

Bases == {Observations(n, sh[1], sh[2]) : n \in Lengths, sh \in Shapes}

Reverse(h) == [i \in 1 .. Len(h) |-> h[Len(h) + 1 - i]]

SwapFirst(h) ==
    IF Len(h) < 2 THEN h
    ELSE [i \in 1 .. Len(h) |-> IF i = 1 THEN h[2] ELSE IF i = 2 THEN h[1] ELSE h[i]]

RotateLeft(h) == IF h = <<>> THEN h ELSE Append(Tail(h), Head(h))

\* Orders in which a caller may present the same observations.
Orders(h) == {h, Reverse(h), SwapFirst(h), RotateLeft(h), Reverse(SwapFirst(h))}

\* A history too short to forecast from: the first MinHistory - 1 rows.
Truncated(h) ==
    SubSeq(h, 1, IF Len(h) < MinHistory THEN Len(h) ELSE MinHistory - 1)

\* The price_history arguments a caller holding obs passes to a call: the
\* observations as fetched, newest first, or cut short.
Args(obs) == {obs, Reverse(obs), Truncated(obs)}

\* --------------------------------------------------------- feature builder
\* pd.DataFrame(price_history): one row per observation, labelled by its
\* position in the input (the index survives sort_values).
DataFrame(h) ==
    [i \in 1 .. Len(h) |->
        [index |-> i - 1, timestamp |-> h[i].timestamp, price |-> h[i].price]]

MinTs(df, idx) ==
    CHOOSE t \in {df[i].timestamp : i \in idx} :
        \A i \in idx : t <= df[i].timestamp

\* df.sort_values('timestamp') with the default kind='quicksort': every
\* arrangement of the rows that is ascending in timestamp is a possible
\* outcome; rows of equal timestamp come out in any order.
RECURSIVE SortFrom(_, _)
SortFrom(df, idx) ==
    IF idx = {} THEN {<<>>}
    ELSE LET least == MinTs(df, idx)
             first == {i \in idx : df[i].timestamp = least}
         IN  UNION {{<<df[i]>> \o rest : rest \in SortFrom(df, idx \ {i})} :
                        i \in first}

\* No sort at all: the rows stay in input order.
sort_values_skipped(df) == {df}

sort_values(df) == SortFrom(df, DOMAIN df)

\* A window one row too wide: the rows i-7 .. i.
WindowAtWide(prices, i) ==
    SubSeq(prices, IF i > Window + 1 THEN i - Window ELSE 1, i)

\* The rows i-6 .. i of the sorted price column (fewer at the start).
WindowAt(prices, i) ==
    SubSeq(prices, IF i > Window THEN i - Window + 1 ELSE 1, i)

\* rolling(window=7, min_periods=1).mean(): the mean of the non-NaN values
\* of the window, NaN when there is none.
rolling_mean(prices, i) ==
    LET w == Finite(WindowAt(prices, i))
    IN  IF Len(w) >= 1 THEN Rat(SumSeq(w), Len(w)) ELSE NaNRat

\* The first row differenced against an implicit 0 instead of filled.
price_diff_unfilled(prices, i) ==
    IF i = 1 THEN (IF IsFinite(prices[1]) THEN prices[1] ELSE 0)
    ELSE IF ~IsFinite(prices[i]) \/ ~IsFinite(prices[i - 1])
    THEN 0
    ELSE prices[i] - prices[i - 1]

\* diff().fillna(0): price[i] - price[i-1]; NaN (first row, or a NaN
\* operand) is replaced by 0.
price_diff(prices, i) ==
    IF i = 1 \/ ~IsFinite(prices[i]) \/ ~IsFinite(prices[i - 1])
    THEN 0
    ELSE prices[i] - prices[i - 1]

\* rolling(window=7, min_periods=1).std().fillna(0), as its square: the
\* sample variance (ddof=1) of the non-NaN values of the window; NaN for
\* fewer than two values, replaced by 0.
rolling_std(prices, i) ==
    LET w == Finite(WindowAt(prices, i))
        k == Len(w)
    IN  IF k >= 2
        THEN Rat(k * SumSq(w) - SumSeq(w) * SumSeq(w), k * (k - 1))
        ELSE ZeroRat

\* day_number counted from one.
FeatureTableFromOne(sorted) ==
    LET prices == [i \in 1 .. Len(sorted) |-> sorted[i].price]
    IN  [i \in 1 .. Len(sorted) |->
            [index        |-> sorted[i].index,
             timestamp    |-> sorted[i].timestamp,
             price        |-> sorted[i].price,
             day_number   |-> i,
             ma_7         |-> rolling_mean(prices, i),
             price_change |-> price_diff(prices, i),
             volatility   |-> rolling_std(prices, i)]]

\* The feature table built from the sorted frame: the columns of df after
\* lines 66-72.
FeatureTable(sorted) ==
    LET prices == [i \in 1 .. Len(sorted) |-> sorted[i].price]
    IN  [i \in 1 .. Len(sorted) |->
            [index        |-> sorted[i].index,
             timestamp    |-> sorted[i].timestamp,
             price        |-> sorted[i].price,
             day_number   |-> i - 1,
             ma_7         |-> rolling_mean(prices, i),
             price_change |-> price_diff(prices, i),
             volatility   |-> rolling_std(prices, i)]]

\* prepare_features: the possible tables df for a history of at least
\* MinHistory rows (shorter histories raise before any table is built).
prepare_features(h) == {FeatureTable(s) : s \in sort_values(DataFrame(h))}

\* Targets shifted by one row: each row paired with the next price.
YOfNext(df) ==
    [i \in 1 .. Len(df) |-> df[IF i < Len(df) THEN i + 1 ELSE i].price]

\* X = df[features].values and y = df['price'].values
XRow(r) == <<r.day_number, r.ma_7, r.price_change, r.volatility>>
XOf(df) == [i \in 1 .. Len(df) |-> XRow(df[i])]
YOf(df) == [i \in 1 .. Len(df) |-> df[i].price]

\* ------------------------------------------------------------------- state
VARIABLES
    observations,    \* the observations the caller holds
    model_type,      \* self.model_type
    fitted,          \* self.model: the rows and targets of its last fit
    is_trained,      \* self.is_trained
    metrics,         \* self.metrics
    train_succeeded, \* a train call on this instance has returned normally
    op,              \* the last call: "init", "train" or "predict"
    price_history,   \* its price_history argument
    days,            \* its days argument
    error,           \* the error it raised, "none" when it returned
    table,           \* the frame df its prepare_features built, <<>> if none
    split,           \* train: the slices X_train, y_train, X_test, y_test
    steps,           \* predict_next_days: the locals of every loop iteration
    predictions      \* predict_next_days: the list it returned

\* The forecast requests of the web layer (get_price_history and
\* create_price_prediction) and what they share.
VARIABLES
    req,             \* every request: its position, inputs and locals
    clock,           \* datetime.now(), in ticks
    files,           \* the chart files under static/predictions
    figures          \* pyplot's open figures, by the request that opened them

\* Two runs of train followed by predict_next_days on the same input.
VARIABLES
    runs             \* the input, the entropy of the process, what each run returned

\* CryptoAPIService: the response cache of the price API client.
VARIABLES
    cache,           \* self._cache: key -> (data, timestamp)
    now,             \* time.time(), in seconds
    last_call        \* the last call on the service and what it did

\* check_all_alerts: one run of the background alert task.
VARIABLES
    task             \* its position, its results dict and the item it last handled

\* GET /api/watchlist by one user with one watched crypto.
VARIABLES
    alerts_log,      \* table alerts_log: the alert types logged for the pair
    outbox,          \* the price-alert emails handed to the email service
    last_get         \* the last request: what it read and what it did

\* POST /api/watchlist/add by one user, two requests at a time.
VARIABLES
    watchlist,       \* table watchlist: the api_crypto_id of each of the user's rows
    add              \* every add request: its position, locals and answer

model_vars == <<observations, model_type, fitted, is_trained, metrics,
                train_succeeded, op, price_history, days, error, table, split,
                steps, predictions>>

req_vars == <<req, clock, files, figures>>

vars == <<observations, model_type, fitted, is_trained, metrics,
          train_succeeded, op, price_history, days, error, table, split,
          steps, predictions, req, clock, files, figures, runs,
          cache, now, last_call, task, alerts_log, outbox, last_get,
          watchlist, add>>

cache_vars == <<cache, now, last_call>>

get_vars == <<alerts_log, outbox, last_get>>

add_vars == <<watchlist, add>>

\* The alert task and the watchlist routes.
alert_vars == <<task, get_vars, add_vars>>

\* What the calls on one instance leave alone.
outside_model == <<req_vars, runs, cache_vars, alert_vars>>

\* What a forecast request leaves alone.
outside_requests == <<model_vars, runs, cache_vars, alert_vars>>

\* What a run of train and predict leaves alone.
outside_runs == <<model_vars, req_vars, cache_vars, alert_vars>>

instance == <<model_type, fitted, is_trained, metrics, train_succeeded>>

Unfitted == [fit |-> FALSE, X |-> <<>>, y |-> <<>>]
NoMetrics == [k \in {} |-> 0]
NoSplit == [X_train |-> <<>>, y_train |-> <<>>, X_test |-> <<>>, y_test |-> <<>>]

Requests == {"r1", "r2"}

NoModel == [made |-> FALSE, model_type |-> "none", is_trained |-> FALSE,
            metrics |-> NoMetrics]

NoResponse ==
    [status |-> 0, keys |-> {}, predictions |-> <<>>, metrics |-> NoMetrics,
     plot_url |-> <<>>, prediction_error |-> "none"]

IdleRequest ==
    [pc |-> "idle", symbol |-> "none", selector |-> "none",
     predict |-> FALSE, rows |-> 0, model |-> NoModel, calls |-> <<>>,
     predictions |-> <<>>, plot_path |-> <<>>, render |-> "none",
     outcome |-> "none", report |-> {}, response |-> NoResponse]

NoRequests ==
    /\ req = [r \in Requests |-> IdleRequest]
    /\ clock = 0
    /\ files = {}
    /\ figures = {}

\* A value that is not there: None, or no call yet.
None == "none"

NoCall ==
    [op |-> None, key |-> <<>>, http |-> FALSE, served |-> FALSE,
     age |-> 0, result |-> None]

\* The service as constructed: self._cache = {}.
NoCache ==
    /\ cache = <<>>
    /\ now = 0
    /\ last_call = NoCall

\* results as check_all_alerts initialises it; errors is kept as its length.
NoResults == [checked |-> 0, triggered |-> 0, emails_sent |-> 0, errors |-> 0]

NoItem ==
    [evaluated |-> FALSE, alert_percent |-> <<>>, latest |-> <<>>,
     history |-> <<>>, triggered |-> FALSE, alert_type |-> None,
     logged |-> FALSE, emailed |-> None, raised |-> FALSE]

\* The alert task is not running.
NoTask ==
    task = [pc |-> "idle", items |-> 0, index |-> 0, results |-> NoResults,
            item |-> NoItem]

NoGet ==
    [count |-> 0, change |-> 0, threshold |-> 0, recent |-> FALSE,
     emailed |-> FALSE, logged |-> FALSE]

\* No request for the watchlist yet, nothing logged, nothing sent.
NoGets ==
    /\ alerts_log = <<>>
    /\ outbox = <<>>
    /\ last_get = NoGet

IdleAdd ==
    [pc |-> "idle", api_crypto_id |-> None, watched |-> FALSE,
     status |-> 0, inserted |-> FALSE]

\* An empty watchlist and no add request.
NoAdds ==
    /\ watchlist = <<>>
    /\ add = [r \in Requests |-> IdleAdd]

\* The alert task and the watchlist routes at rest.
NoAlerts == NoTask /\ NoGets /\ NoAdds

RunIds == {1, 2}

NoRun ==
    [done |-> FALSE, seed |-> 0, error |-> "none", metrics |-> NoMetrics,
     answers |-> <<>>, points |-> <<>>]

\* No run was started.
NoRuns ==
    runs = [observations |-> <<>>, model_type |-> "none", days |-> 0,
            table |-> <<>>, out |-> [k \in RunIds |-> NoRun]]

\* __init__ with a supported selector: a fresh, untrained instance.
Init ==
    /\ NoRequests
    /\ NoRuns
    /\ NoCache
    /\ NoAlerts
    /\ observations \in Bases
    /\ model_type \in ModelTypes
    /\ fitted = Unfitted
    /\ is_trained = FALSE
    /\ metrics = NoMetrics
    /\ train_succeeded = FALSE
    /\ op = "init"
    /\ price_history = <<>>
    /\ days = 0
    /\ error = "none"
    /\ table = <<>>
    /\ split = NoSplit
    /\ steps = <<>>
    /\ predictions = <<>>

\* ---------------------------------------------------------------- __init__
\* A constructor that takes any selector.
SupportedAny(selector) == TRUE

Supported(selector) == selector \in ModelTypes

\* PricePredictionModel(model_type): an unknown selector raises and no
\* instance is made (the caller keeps the one it had).
Construct(selector) ==
    /\ op' = "init"
    /\ price_history' = <<>>
    /\ days' = 0
    /\ table' = <<>>
    /\ split' = NoSplit
    /\ steps' = <<>>
    /\ predictions' = <<>>
    /\ UNCHANGED observations
    /\ IF Supported(selector)
       THEN /\ model_type' = selector
            /\ fitted' = Unfitted
            /\ is_trained' = FALSE
            /\ metrics' = NoMetrics
            /\ train_succeeded' = FALSE
            /\ error' = "none"
       ELSE /\ error' = "unknown_model_type"
            /\ UNCHANGED instance

\* ------------------------------------------------------------------- train
\* Off by one: six rows are let through.
TooShortLax(h) == Len(h) < MinHistory - 1

\* prepare_features, line 59: fewer than 7 rows raise ValueError.
TooShort(h) == Len(h) < MinHistory

\* train_test_split(test_size=0.2): n_test = ceil(0.2 * n).
NTest(n) == (n + TestFifth - 1) \div TestFifth

\* The boundary one row early: 20 rows are split too.
UseSplitFrom20(n) == n >= SplitThreshold

\* train, line 92: the split is taken for more than 20 rows.
UseSplit(n) == n > SplitThreshold

\* The evaluation slice starting one row early: the last training row is
\* evaluated too.
train_test_split_overlap(X, y) ==
    LET n == Len(X)
        k == n - NTest(n)
    IN  [X_train |-> SubSeq(X, 1, k), y_train |-> SubSeq(y, 1, k),
         X_test  |-> SubSeq(X, k, n), y_test |-> SubSeq(y, k, n)]

\* train_test_split(X, y, test_size=0.2, shuffle=False): the first
\* n - n_test rows train, the last n_test rows evaluate.
train_test_split(X, y) ==
    LET n == Len(X)
        k == n - NTest(n)
    IN  [X_train |-> SubSeq(X, 1, k), y_train |-> SubSeq(y, 1, k),
         X_test  |-> SubSeq(X, k + 1, n), y_test |-> SubSeq(y, k + 1, n)]

\* train, lines 92-97.
SplitOf(X, y) ==
    IF UseSplit(Len(X))
    THEN train_test_split(X, y)
    ELSE [X_train |-> X, y_train |-> y, X_test |-> X, y_test |-> y]

FiniteRow(x) == x[2] # NaNRat
AllFiniteX(X) == \A i \in DOMAIN X : FiniteRow(X[i])
AllFiniteY(y) == \A i \in DOMAIN y : IsFinite(y[i])

\* scikit-learn validates its inputs: fit(X, y), predict(X) and the
\* metric functions raise ValueError on a NaN.
FitAccepts(X, y) == AllFiniteX(X) /\ AllFiniteY(y)
EvalAccepts(X, y) == AllFiniteX(X) /\ AllFiniteY(y)

\* self.metrics after a complete evaluation.  The three error measures are
\* floats computed from the regressor's answers; the model keeps that they
\* are present, not their value.
MetricsOf(sp) ==
    [rmse |-> "float", mae |-> "float", r2_score |-> "float",
     training_samples |-> Len(sp.X_train), test_samples |-> Len(sp.X_test)]

\* train(price_history), lines 88-128.
Train(h) ==
    /\ op' = "train"
    /\ price_history' = h
    /\ days' = 0
    /\ steps' = <<>>
    /\ predictions' = <<>>
    /\ UNCHANGED <<observations, model_type>>
    /\ IF TooShort(h)
       THEN /\ error' = "insufficient_data"
            /\ table' = <<>>
            /\ split' = NoSplit
            /\ UNCHANGED <<fitted, is_trained, metrics, train_succeeded>>
       ELSE \E df \in prepare_features(h) :
              LET sp == SplitOf(XOf(df), YOf(df))
              IN  /\ table' = df
                  /\ split' = sp
                  /\ IF ~FitAccepts(sp.X_train, sp.y_train)
                     THEN \* self.model.fit raises: nothing was assigned
                          /\ error' = "invalid_input"
                          /\ UNCHANGED <<fitted, is_trained, metrics, train_succeeded>>
                     ELSE /\ fitted' = [fit |-> TRUE, X |-> sp.X_train, y |-> sp.y_train]
                          /\ is_trained' = TRUE
                          /\ IF ~EvalAccepts(sp.X_test, sp.y_test)
                             THEN \* predict or a metric raises after line 101
                                  /\ error' = "invalid_input"
                                  /\ UNCHANGED <<metrics, train_succeeded>>
                             ELSE /\ metrics' = MetricsOf(sp)
                                  /\ train_succeeded' = TRUE
                                  /\ error' = "none"

\* ------------------------------------------------------- predict_next_days
\* strftime('%Y-%m-%d'): the calendar day an instant falls in.
DateOf(t) == t \div HoursPerDay

\* Steps of one hour, the spacing of hourly training data.
PlusHours(t, i) == t + i

\* last_timestamp + timedelta(days=i)
PlusDays(t, i) == t + i * HoursPerDay

\* The blend weighted as for a window of eight.
BlendOfEight(ma, predicted_price) ==
    Rat(ma.n * Window + predicted_price * ma.d, ma.d * (Window + 1))

\* line 169: last_ma = (last_ma * 6 + predicted_price) / 7
Blend(ma, predicted_price) ==
    Rat(ma.n * (Window - 1) + predicted_price * ma.d, ma.d * Window)

\* The price change re-derived for a synthetic row instead of carried.
NextFeaturesFlat(last, i, last_ma) ==
    <<last.day_number + i, last_ma, 0, last.volatility>>

\* lines 158-163: the synthetic feature row of iteration i.
NextFeatures(last, i, last_ma) ==
    <<last.day_number + i, last_ma, last.price_change, last.volatility>>

\* The offset counted from zero.
PointFromZero(last, i, predicted_price) ==
    [date            |-> DateOf(PlusDays(last.timestamp, i)),
     predicted_price |-> predicted_price,
     day_offset      |-> i - 1]

\* lines 172-177: the point appended in iteration i.
Point(last, i, predicted_price) ==
    [date            |-> DateOf(PlusDays(last.timestamp, i)),
     predicted_price |-> predicted_price,
     day_offset      |-> i]

\* lines 153-177: iterations i .. Len(answers) of the loop; answers[i] is
\* what self.model.predict returns in iteration i.  Each entry keeps the
\* locals of its iteration: the row passed to the regressor, its answer,
\* the point appended and last_ma after line 169.
RECURSIVE Loop(_, _, _, _)
Loop(last, answers, i, last_ma) ==
    IF i > Len(answers) THEN <<>>
    ELSE LET predicted_price == answers[i]
             carried == Blend(last_ma, predicted_price)
         IN  <<[next_features   |-> NextFeatures(last, i, last_ma),
                predicted_price |-> predicted_price,
                last_ma         |-> carried,
                point           |-> Point(last, i, predicted_price)]>>
             \o Loop(last, answers, i + 1, carried)

\* predict_next_days(price_history, days), lines 137-183.
Predict(h, d) ==
    /\ op' = "predict"
    /\ price_history' = h
    /\ days' = d
    /\ split' = NoSplit
    /\ UNCHANGED <<observations, instance>>
    /\ IF ~is_trained
       THEN /\ error' = "not_trained"
            /\ table' = <<>>
            /\ steps' = <<>>
            /\ predictions' = <<>>
       ELSE IF TooShort(h)
       THEN /\ error' = "insufficient_data"
            /\ table' = <<>>
            /\ steps' = <<>>
            /\ predictions' = <<>>
       ELSE \E df \in prepare_features(h) :
            \E answers \in [1 .. d -> PredPrices] :
              LET last == df[Len(df)]
                  iterations == Loop(last, answers, 1, last.ma_7)
              IN  /\ table' = df
                  /\ IF d >= 1 /\ ~FiniteRow(NextFeatures(last, 1, last.ma_7))
                     THEN \* self.model.predict raises on a NaN feature
                          /\ error' = "invalid_input"
                          /\ steps' = <<>>
                          /\ predictions' = <<>>
                     ELSE /\ error' = "none"
                          /\ steps' = iterations
                          /\ predictions' = [i \in 1 .. d |-> iterations[i].point]

\* -------------------------------------------------------------------- spec
Next ==
    \/ (\E selector \in Selectors : Construct(selector)) /\ UNCHANGED outside_model
    \/ (\E h \in Args(observations) : Train(h)) /\ UNCHANGED outside_model
    \/ (\E h \in Args(observations) : \E d \in 0 .. MaxDays : Predict(h, d))
          /\ UNCHANGED outside_model

Spec == Init /\ [][Next]_vars

TypeOK ==
    /\ is_trained \in BOOLEAN
    /\ op \in {"init", "train", "predict"}
    /\ error \in {"none", "insufficient_data", "not_trained",
                  "unknown_model_type", "invalid_input"}

\* ================================================================== claims

\* C1: train on a history of fewer than 7 observations fails with the
\* insufficient-data error and changes nothing of the instance: is_trained,
\* metrics and the fitted regressor are after the call what they were
\* before it.
C1_ShortTrainFailsClean ==
    [][(op' = "train" /\ Len(price_history') < 7)
          => /\ error' = "insufficient_data"
             /\ is_trained' = is_trained
             /\ metrics' = metrics
             /\ fitted' = fitted]_vars

\* C1 witness: a trained instance was given six observations to train on,
\* was refused, and is still trained with its metrics.
C1_Witness ==
    /\ op = "train"
    /\ Len(price_history) = 6
    /\ error = "insufficient_data"
    /\ is_trained
    /\ fitted.fit
    /\ DOMAIN metrics # {}

\* C2: predict_next_days on an instance whose train has never succeeded
\* fails with the model-not-trained error and returns no points, whatever
\* the history and the count.
C2_UntrainedPredictFails ==
    [][(op' = "predict" /\ ~train_succeeded)
          => (error' = "not_trained" /\ predictions' = <<>>)]_vars

\* C3: a predict_next_days call with days = N >= 1 that returns, returns
\* exactly N points, with day_offset 1, 2, ..., N in that order and strictly
\* increasing dates.
C3_ForecastShape ==
    (op = "predict" /\ error = "none" /\ days >= 1)
        => /\ Len(predictions) = days
           /\ \A i \in 1 .. Len(predictions) : predictions[i].day_offset = i
           /\ \A i \in 1 .. Len(predictions) - 1 :
                  predictions[i].date < predictions[i + 1].date

\* C3 witness: a trained instance returned a forecast of two points.
C3_Witness ==
    /\ op = "predict"
    /\ error = "none"
    /\ is_trained
    /\ days = 2
    /\ Len(predictions) = 2

\* The day_number values of the rows of a feature matrix.
DayNumbers(X) == {X[i][1] : i \in DOMAIN X}

\* C4: the split is taken for strictly more than 20 rows.  With exactly 20
\* observations train fits and evaluates on the same full set
\* (training_samples = test_samples = 20); with 21 it fits and evaluates on
\* disjoint slices with training_samples + test_samples = 21.
C4_SplitBoundary ==
    (op = "train" /\ error = "none")
        => /\ Len(price_history) = 20
               => /\ metrics.training_samples = 20
                  /\ metrics.test_samples = 20
                  /\ split.X_train = split.X_test
                  /\ DayNumbers(split.X_train) = 0 .. 19
           /\ Len(price_history) = 21
               => /\ metrics.training_samples + metrics.test_samples = 21
                  /\ metrics.training_samples = Len(split.X_train)
                  /\ metrics.test_samples = Len(split.X_test)
                  /\ DayNumbers(split.X_train) \cap DayNumbers(split.X_test) = {}
                  /\ DayNumbers(split.X_train) \cup DayNumbers(split.X_test) = 0 .. 20

\* C4 witness: train returned for 21 observations with 16 rows fitted and
\* 5 held out.
C4_Witness ==
    /\ op = "train"
    /\ error = "none"
    /\ Len(price_history) = 21
    /\ metrics.training_samples = 16
    /\ metrics.test_samples = 5

C10_FitsEveryRow ==
    (op = "train" /\ error = "none")
        => /\ Len(fitted.X) = Len(table)
           /\ \A i \in 1 .. Len(table) :
                  fitted.X[i] = XRow(table[i]) /\ fitted.y[i] = table[i].price

\* C10 amended: every pair given to the fit step is a row of the sorted
\* table with that same row's price as target (no shift); the pairs are all
\* n rows when n <= 20 and the first n - ceil(n / 5) rows when n > 20.
C10_FitsOwnPrice ==
    (op = "train" /\ error = "none")
        => LET n == Len(table)
           IN  /\ fitted.fit
               /\ \A i \in 1 .. Len(fitted.X) :
                      fitted.X[i] = XRow(table[i]) /\ fitted.y[i] = table[i].price
               /\ Len(fitted.y) = Len(fitted.X)
               /\ n <= 20 => Len(fitted.X) = n
               /\ n > 20 => /\ 5 * (n - Len(fitted.X)) >= n
                            /\ 5 * (n - Len(fitted.X) - 1) < n

\* C10 witness: a fit on 21 observations of changing price used the first
\* 16 rows.
C10_Witness ==
    /\ op = "train"
    /\ error = "none"
    /\ Len(table) = 21
    /\ Len(fitted.X) = 16
    /\ table[1].price # table[2].price

\* Equality of the rationals a and b (d > 0), whatever their form.
RatEq(a, b) == a.n * b.d = b.n * a.d

\* C6: in the forecast loop the synthetic row of step k is
\* [last_day + k, ma_k, last_price_delta, last_volatility]: price_delta and
\* volatility_7 are those of the last historical row at every step, ma_1 is
\* the last historical moving average and ma_(k+1) = (ma_k * 6 + p_k) / 7
\* with p_k the price predicted at step k.
C6_SyntheticRows ==
    (op = "predict" /\ error = "none")
        => LET last == table[Len(table)]
           IN  /\ Len(steps) = days
               /\ \A k \in 1 .. Len(steps) :
                    LET row == steps[k].next_features
                    IN  /\ row[1] = last.day_number + k
                        /\ row[3] = last.price_change
                        /\ row[4] = last.volatility
                        /\ k = 1 => RatEq(row[2], last.ma_7)
                        /\ k > 1 =>
                             LET prev == steps[k - 1].next_features[2]
                                 p == steps[k - 1].predicted_price
                             IN  row[2].n * 7 * prev.d
                                    = (prev.n * 6 + p * prev.d) * row[2].d
                        /\ predictions[k].predicted_price = steps[k].predicted_price

\* C6 witness: a two-step forecast from a history whose last row has a
\* non-zero price change and volatility.
C6_Witness ==
    /\ op = "predict"
    /\ error = "none"
    /\ Len(steps) = 2
    /\ table[Len(table)].price_change # 0
    /\ table[Len(table)].volatility # ZeroRat
    /\ steps[1].predicted_price # steps[2].predicted_price

\* The prices of the sorted history followed by the first k predictions.
Extended(k) ==
    [i \in 1 .. Len(table) + k |->
        IF i <= Len(table) THEN table[i].price
        ELSE steps[i - Len(table)].predicted_price]

\* The sum of the last 7 values of the series extended by k predictions.
Last7Sum(k) == SumSeq(SubSeq(Extended(k), Len(table) + k - 6, Len(table) + k))

NoNaN == \A i \in DOMAIN table : table[i].price # NaN

\* C7 as claimed: the update slides the 7-row window forward: after every
\* forecast step the carried moving average is the mean of the 7 most
\* recent values of the historical prices followed by the predictions so
\* far.
C7_WindowSlide ==
    (op = "predict" /\ error = "none" /\ NoNaN)
        => \A k \in 1 .. Len(steps) :
               steps[k].last_ma.n * 7 = Last7Sum(k) * steps[k].last_ma.d

\* C7 amended: the update is a blend, not a window slide.  After step k the
\* carried value is (6 * c + p_k) / 7, with c the value carried into the
\* step (the last historical moving average for k = 1); after the first
\* step it is the mean of the 7 most recent values exactly when the price
\* that leaves the window equals the last historical moving average
\* (histories without NaN prices).
C7_Blend ==
    (op = "predict" /\ error = "none" /\ NoNaN)
        => \A k \in 1 .. Len(steps) :
               LET c == steps[k].next_features[2]
                   p == steps[k].predicted_price
                   after == steps[k].last_ma
                   leaving == table[Len(table) - 6].price
               IN  /\ after.n * 7 * c.d = (6 * c.n + p * c.d) * after.d
                   /\ k = 1 =>
                        ((after.n * 7 = Last7Sum(1) * after.d)
                            <=> (leaving * c.d = c.n))

\* C7 witness: a forecast step after which the carried value is not the
\* mean of the 7 most recent values.
C7_Witness ==
    /\ op = "predict"
    /\ error = "none"
    /\ NoNaN
    /\ Len(steps) >= 1
    /\ steps[1].last_ma.n * 7 # Last7Sum(1) * steps[1].last_ma.d

\* The feature columns of a table, without the input labels of its rows.
Features(df) ==
    [i \in 1 .. Len(df) |->
        <<df[i].timestamp, df[i].price, df[i].day_number, df[i].ma_7,
          df[i].price_change, df[i].volatility>>]

DistinctTimestamps(h) ==
    \A i, j \in DOMAIN h : i # j => h[i].timestamp # h[j].timestamp

\* C8 as claimed: the feature table built from any reordering of the same
\* observations is the table that was built: same rows in the same order.
C8_OrderIndependent ==
    table # <<>>
        => \A h \in Orders(price_history) : \A df \in prepare_features(h) :
               Features(df) = Features(table)

\* C8 amended: for observations with pairwise distinct timestamps, the
\* feature table built from any reordering of them is the table that was
\* built.
C8_OrderIndependentDistinct ==
    (table # <<>> /\ DistinctTimestamps(price_history))
        => \A h \in Orders(price_history) : \A df \in prepare_features(h) :
               Features(df) = Features(table)

\* C8 witness: a table was built from observations of distinct timestamps
\* and changing price that were given out of order.
C8_Witness ==
    /\ table # <<>>
    /\ DistinctTimestamps(price_history)
    /\ price_history[1].timestamp > price_history[2].timestamp
    /\ price_history[1].price # price_history[2].price

\* C9: the sort by timestamp is stable: two observations of equal timestamp
\* are in the feature table in the order they had in the input.
C9_StableSort ==
    table # <<>>
        => \A i, j \in DOMAIN table :
               (i < j /\ table[i].timestamp = table[j].timestamp)
                   => table[i].index < table[j].index

\* C11: the feature table has exactly one row per observation, and the
\* i-th row in timestamp order has day_number i (counted from 0): the
\* values 0 .. n-1, no gap and no repeat.
C11_OneRowPerObservation ==
    table # <<>>
        => /\ Len(table) = Len(price_history)
           /\ {table[i].index : i \in DOMAIN table} = 0 .. Len(price_history) - 1
           /\ \A i \in DOMAIN table :
                  /\ table[i].day_number = i - 1
                  /\ table[i].timestamp = price_history[table[i].index + 1].timestamp
                  /\ table[i].price = price_history[table[i].index + 1].price
           /\ \A i \in 1 .. Len(table) - 1 :
                  table[i].timestamp <= table[i + 1].timestamp

\* C11 witness: a table of 8 rows built from observations given newest
\* first.
C11_Witness ==
    /\ Len(table) = 8
    /\ price_history[1].timestamp > price_history[8].timestamp
    /\ table[8].day_number = 7

\* The first row of the window of row i: max(1, i - 6), rows counted from 1.
WindowStart(i) == IF i - 6 > 1 THEN i - 6 ELSE 1

RECURSIVE PriceSum(_, _)
PriceSum(i, j) == IF i > j THEN 0 ELSE table[j].price + PriceSum(i, j - 1)

\* C12: moving_avg_7 of every row i is the mean of the prices of rows
\* max(0, i-6) .. i: of fewer than 7 rows for the first six, of exactly 7
\* afterwards (rows whose window holds no NaN price).
C12_MovingAverage ==
    table # <<>>
        => \A i \in DOMAIN table :
               (\A j \in WindowStart(i) .. i : table[j].price # NaN)
                   => table[i].ma_7.n * (i - WindowStart(i) + 1)
                          = PriceSum(WindowStart(i), i) * table[i].ma_7.d

\* C12 witness: a table of changing prices in which a row past the seventh
\* has a moving average different from its own price.
C12_Witness ==
    /\ Len(table) >= 8
    /\ NoNaN
    /\ table[8].ma_7 # [n |-> table[8].price, d |-> 1]
    /\ table[8].ma_7 # table[7].ma_7

\* C13: for a series of constant price P, every row has moving_avg_7 = P,
\* volatility_7 = 0 and price_delta = 0.
C13_ConstantSeries ==
    (table # <<>> /\ NoNaN
        /\ \A i \in DOMAIN table : table[i].price = table[1].price)
        => \A i \in DOMAIN table :
               /\ table[i].ma_7.d = 1
               /\ table[i].ma_7.n = table[1].price
               /\ table[i].volatility.n = 0
               /\ table[i].price_change = 0

\* C13 witness: a table of at least 7 rows, all of price 5.
C13_Witness ==
    /\ Len(table) >= 7
    /\ \A i \in DOMAIN table : table[i].price = 5

RECURSIVE MaxTimestamp(_)
MaxTimestamp(h) ==
    IF Len(h) = 1 THEN h[1].timestamp
    ELSE LET m == MaxTimestamp(Tail(h))
         IN  IF h[1].timestamp > m THEN h[1].timestamp ELSE m

\* C14: the forecast point of step k is dated k whole calendar days after
\* the day of the latest historical observation, whatever the spacing of
\* the observations; consecutive points are exactly one day apart.
C14_WholeDays ==
    (op = "predict" /\ error = "none")
        => /\ \A k \in 1 .. Len(predictions) :
                  predictions[k].date = (MaxTimestamp(price_history) \div 24) + k
           /\ \A k \in 1 .. Len(predictions) - 1 :
                  predictions[k + 1].date = predictions[k].date + 1

\* C14 witness: a two-point forecast from observations one hour apart.
C14_Witness ==
    /\ op = "predict"
    /\ error = "none"
    /\ Len(predictions) = 2
    /\ price_history[2].timestamp - price_history[1].timestamp \in {1, -1}

\* ======================================================= forecast requests
\* get_price_history (src/app.py) calling create_price_prediction
\* (src/services/ml_model.py), once per request, for requests that the web
\* layer runs concurrently.  The steps of a request that touch nothing
\* shared are one action; reading the clock and rendering the chart are
\* actions of their own.

MaxClock == 2          \* the clock runs over 0..MaxClock ticks
TicksPerSecond == 2    \* strftime('%Y%m%d_%H%M%S') keeps whole seconds
RouteMinHistory == 7   \* get_price_history: len(historical_data) >= 7

Symbols == {"BTC", "ETH"}

\* What crypto_api.get_historical_data may hand to the route.
Fetched ==
    {<<>>,
     Observations(MinHistory - 1, "daily", "zigzag"),
     Observations(MinHistory, "daily", "zigzag"),
     Observations(SplitThreshold + 1, "daily", "nanlast")}

\* A model found already trained, as one kept from an earlier request
\* would be.
KeptModel(selector) ==
    [made |-> TRUE, model_type |-> selector, is_trained |-> TRUE,
     metrics |-> NoMetrics]

\* model = PricePredictionModel(model_type=model_type), lines 34-44.
FreshModel(selector) ==
    [made |-> TRUE, model_type |-> selector, is_trained |-> FALSE,
     metrics |-> NoMetrics]

\* model.train(price_history) on a request's own instance: the error
\* raised ("none" when it returns) and the instance afterwards.
TrainOn(model, h) ==
    IF TooShort(h)
    THEN {[error |-> "insufficient_data", model |-> model]}
    ELSE {LET sp == SplitOf(XOf(df), YOf(df))
          IN  IF ~FitAccepts(sp.X_train, sp.y_train)
              THEN [error |-> "invalid_input", model |-> model]
              ELSE IF ~EvalAccepts(sp.X_test, sp.y_test)
              THEN [error |-> "invalid_input",
                    model |-> [model EXCEPT !.is_trained = TRUE]]
              ELSE [error |-> "none",
                    model |-> [model EXCEPT !.is_trained = TRUE,
                                            !.metrics = MetricsOf(sp)]] :
          df \in prepare_features(h)}

\* What the fitted regressor of a request answers on its d synthetic rows:
\* the same price for each, as a LinearRegression of slope 0 or a tree of
\* one leaf does.
Answers(d) == {[i \in 1 .. d |-> p] : p \in PredPrices}

\* model.predict_next_days(price_history, days) on a request's own
\* instance: the error raised and the list returned.
PredictOn(model, h, d) ==
    IF ~model.is_trained
    THEN {[error |-> "not_trained", predictions |-> <<>>]}
    ELSE IF TooShort(h)
    THEN {[error |-> "insufficient_data", predictions |-> <<>>]}
    ELSE {LET last == df[Len(df)]
              iterations == Loop(last, answers, 1, last.ma_7)
          IN  IF d >= 1 /\ ~FiniteRow(NextFeatures(last, 1, last.ma_7))
              THEN [error |-> "invalid_input", predictions |-> <<>>]
              ELSE [error |-> "none",
                    predictions |-> [i \in 1 .. d |-> iterations[i].point]] :
          df \in prepare_features(h), answers \in Answers(d)}

Call(name, model) == [op |-> name, trained |-> model.is_trained]

\* get_price_history, lines 696-712: the JSON answered for a request whose
\* forecast ended with this outcome.
RouteResponse(outcome, preds, scores, plot_path) ==
    IF outcome = "report"
    THEN [status |-> 200,
          keys |-> {"symbol", "name", "history", "predictions", "metrics",
                    "plot_url"},
          predictions |-> preds, metrics |-> scores,
          plot_url |-> plot_path, prediction_error |-> "none"]
    ELSE [status |-> 200,
          keys |-> {"symbol", "name", "history", "predictions",
                    "prediction_error"},
          predictions |-> <<>>, metrics |-> NoMetrics,
          plot_url |-> <<>>, prediction_error |-> outcome]

\* get_price_history, lines 681-687 and 711-712: no forecast is made.
PlainResponse(h) ==
    IF h = <<>>
    THEN [NoResponse EXCEPT !.status = 200,
              !.keys = {"symbol", "history", "predictions", "message"}]
    ELSE [NoResponse EXCEPT !.status = 200,
              !.keys = {"symbol", "name", "history", "predictions"}]

\* create_price_prediction raised: the except clause of line 289 re-raises,
\* the local model is gone, the route answers with prediction_error.
Raised(r0, outcome, calls) ==
    [r0 EXCEPT !.pc = "done", !.outcome = outcome, !.calls = calls,
               !.model = NoModel, !.predictions = <<>>,
               !.response = RouteResponse(outcome, <<>>, NoMetrics, <<>>)]

\* A forecast attempted whenever asked for, whatever was fetched.
AttemptsAlways(pred, h) == pred

\* get_price_history, line 696: if predict and len(historical_data) >= 7
Attempts(pred, h) == pred /\ Len(h) >= RouteMinHistory

\* A request arrives: get_price_history up to line 702 and
\* create_price_prediction lines 263-272 (construct, train, predict).
Start(r) ==
    /\ req[r].pc = "idle"
    /\ \E sym \in Symbols, d \in 0 .. MaxDays, sel \in Selectors,
          pred \in BOOLEAN, h \in Fetched :
         LET r0 == [IdleRequest EXCEPT !.symbol = sym, !.selector = sel,
                        !.predict = pred, !.rows = Len(h)]
         IN  IF h = <<>> \/ ~Attempts(pred, h)
             THEN req' = [req EXCEPT ![r] =
                             [r0 EXCEPT !.pc = "done",
                                        !.response = PlainResponse(h)]]
             ELSE IF ~Supported(sel)
             THEN req' = [req EXCEPT ![r] =
                             Raised(r0, "unknown_model_type",
                                    <<Call("init", NoModel)>>)]
             ELSE \E t \in TrainOn(FreshModel(sel), h) :
                    LET c2 == <<Call("init", NoModel),
                                Call("train", FreshModel(sel))>>
                    IN  IF t.error # "none"
                        THEN req' = [req EXCEPT ![r] = Raised(r0, t.error, c2)]
                        ELSE \E f \in PredictOn(t.model, h, d) :
                               LET c3 == Append(c2, Call("predict", t.model))
                               IN  IF f.error # "none"
                                   THEN req' = [req EXCEPT ![r] =
                                                   Raised(r0, f.error, c3)]
                                   ELSE req' = [req EXCEPT ![r] =
                                            [r0 EXCEPT !.pc = "predicted",
                                                 !.model = t.model,
                                                 !.calls = c3,
                                                 !.predictions = f.predictions]]
    /\ UNCHANGED <<clock, files, figures>>
    /\ UNCHANGED outside_requests

\* lines 275-277: the file name is the symbol and the current second.
PlotPath(sym, ticks) == <<sym, ticks \div TicksPerSecond>>

NameChart(r) ==
    /\ req[r].pc = "predicted"
    /\ req' = [req EXCEPT ![r] =
                  [@ EXCEPT !.pc = "named",
                            !.plot_path = PlotPath(req[r].symbol, clock)]]
    /\ UNCHANGED <<clock, files, figures>>
    /\ UNCHANGED outside_requests

\* savefig(output_path): the file of that name is replaced.
Written(path, r, complete) ==
    {f \in files : f.path # path}
        \cup {[path |-> path, by |-> r, complete |-> complete]}

\* An exception of the renderer lost on the way to the caller.
AfterPlotSwallowed(rendered) == "report"

\* lines 279-291: plot_predictions returned, or raised and the except
\* clause of line 289 re-raised.
AfterPlot(rendered) == IF rendered THEN "report" ELSE "plot_error"

\* The request is over: the report is returned (lines 282-287) or the error
\* re-raised, and the route answers.
Finished(cur, rendered) ==
    LET outcome == AfterPlot(rendered)
    IN  [cur EXCEPT !.pc = "done",
             !.calls = Append(@, Call("plot", cur.model)),
             !.render = IF rendered THEN "ok" ELSE "failed",
             !.outcome = outcome,
             !.report = IF outcome = "report"
                        THEN {"predictions", "metrics", "plot_path", "model_type"}
                        ELSE {},
             !.model = NoModel,
             !.response = RouteResponse(outcome, cur.predictions,
                                        cur.model.metrics, cur.plot_path)]

\* model.plot_predictions(...), lines 193-239, and the return.  An empty
\* list of predictions has no 'date' column and raises at line 201, before
\* any figure is made.  Otherwise plt.figure() opens a figure; it is closed
\* at line 231, after savefig returned: when makedirs or savefig raises,
\* the figure stays open and the file may exist in part.
Plot(r) ==
    /\ req[r].pc = "named"
    /\ IF req[r].predictions = <<>>
       THEN /\ req' = [req EXCEPT ![r] = Finished(req[r], FALSE)]
            /\ UNCHANGED <<files, figures>>
       ELSE \/ /\ req' = [req EXCEPT ![r] = Finished(req[r], TRUE)]
               /\ files' = Written(req[r].plot_path, r, TRUE)
               /\ UNCHANGED figures
            \/ /\ req' = [req EXCEPT ![r] = Finished(req[r], FALSE)]
               /\ figures' = figures \cup {r}
               /\ \/ files' = Written(req[r].plot_path, r, FALSE)
                  \/ UNCHANGED files
    /\ UNCHANGED clock
    /\ UNCHANGED outside_requests

\* Time passes.
Tick ==
    /\ clock < MaxClock
    /\ clock' = clock + 1
    /\ UNCHANGED <<req, files, figures>>
    /\ UNCHANGED outside_requests

\* One model instance at rest: the requests make their own.
ModelAtRest ==
    /\ observations = <<>>
    /\ model_type = "linear"
    /\ fitted = Unfitted
    /\ is_trained = FALSE
    /\ metrics = NoMetrics
    /\ train_succeeded = FALSE
    /\ op = "init"
    /\ price_history = <<>>
    /\ days = 0
    /\ error = "none"
    /\ table = <<>>
    /\ split = NoSplit
    /\ steps = <<>>
    /\ predictions = <<>>

InitRequests ==
    ModelAtRest /\ NoRequests /\ NoRuns /\ NoCache /\ NoAlerts

NextRequests ==
    \/ \E r \in Requests : Start(r)
    \/ \E r \in Requests : NameChart(r)
    \/ \E r \in Requests : Plot(r)
    \/ Tick

SpecRequests == InitRequests /\ [][NextRequests]_vars

\* ================================================= claims about requests
CallNames(r) == [i \in 1 .. Len(req[r].calls) |-> req[r].calls[i].op]

Pipeline == <<"init", "train", "predict", "plot">>

\* C15: each forecast request constructs a fresh untrained model, trains it
\* once, forecasts once and renders once, in that order, keeps no reference
\* to the model afterwards, and a step of one request leaves every other
\* request's model as it was.
C15_FreshModelPerRequest ==
    /\ [](\A r \in Requests :
            /\ Len(req[r].calls) <= Len(Pipeline)
            /\ CallNames(r) = SubSeq(Pipeline, 1, Len(req[r].calls))
            /\ \A i \in 1 .. Len(req[r].calls) :
                 req[r].calls[i].trained = (req[r].calls[i].op \in {"predict", "plot"})
            /\ req[r].outcome = "report" => CallNames(r) = Pipeline
            /\ req[r].pc = "done" => req[r].model = NoModel
            /\ req[r].pc \in {"predicted", "named"} =>
                 /\ req[r].model.made
                 /\ req[r].model.model_type = req[r].selector)
    /\ [][\A r, q \in Requests :
            (r # q /\ req'[r] # req[r]) => req'[q].model = req[q].model]_vars

C15_Witness ==
    \E r, q \in Requests :
        /\ r # q
        /\ req[r].pc = "done"
        /\ req[r].outcome = "report"
        /\ req[q].pc = "named"
        /\ req[q].model.is_trained
        /\ req[q].model.metrics # NoMetrics

\* C16: create_price_prediction returns a complete report or raises and
\* returns nothing, and when it raises the only side effect left behind is
\* a chart file that may have been created.
C16_AllOrNothing ==
    \A r \in Requests :
        req[r].pc = "done" /\ req[r].calls # <<>> =>
            \/ /\ req[r].outcome = "report"
               /\ req[r].report = {"predictions", "metrics", "plot_path", "model_type"}
            \/ /\ req[r].outcome # "report"
               /\ req[r].report = {}
               /\ r \notin figures

\* C17: two forecast requests in flight at the same time never hold the
\* same chart file name.
C17_DistinctChartNames ==
    \A r, q \in Requests :
        (r # q /\ req[r].pc = "named" /\ req[q].pc = "named") =>
            req[r].plot_path # req[q].plot_path

\* C18: when plot_predictions fails the caller gets an error: no report is
\* returned, and the route answers with prediction_error and without
\* predictions, metrics or plot_url.
C18_RenderFailureSurfaced ==
    \A r \in Requests :
        req[r].render = "failed" =>
            /\ req[r].outcome = "plot_error"
            /\ req[r].report = {}
            /\ req[r].response.prediction_error = "plot_error"
            /\ req[r].response.predictions = <<>>
            /\ req[r].response.keys \cap {"metrics", "plot_url"} = {}

C18_Witness ==
    \E r \in Requests :
        /\ req[r].render = "failed"
        /\ req[r].predictions # <<>>
        /\ \E f \in files : f.by = r /\ ~f.complete

\* C19: after plot_predictions has returned or raised, no figure opened by
\* that call is still open.
C19_FigureReleased ==
    \A r \in Requests : req[r].pc = "done" => r \notin figures

\* C20: a selector outside the supported set is rejected at construction:
\* the request trains nothing, has no forecast points and writes no chart.
C20_UnknownSelectorRejected ==
    \A r \in Requests :
        (/\ req[r].pc # "idle"
         /\ req[r].predict
         /\ req[r].rows >= RouteMinHistory
         /\ req[r].selector \notin ModelTypes) =>
            /\ req[r].pc = "done"
            /\ req[r].outcome = "unknown_model_type"
            /\ CallNames(r) = <<"init">>
            /\ req[r].model = NoModel
            /\ req[r].predictions = <<>>
            /\ req[r].plot_path = <<>>
            /\ r \notin figures
            /\ \A f \in files : f.by # r

C20_Witness ==
    \E r, q \in Requests :
        /\ r # q
        /\ req[r].outcome = "unknown_model_type"
        /\ req[r].selector = "forest"
        /\ req[q].outcome = "report"
        /\ \E f \in files : f.by = q

\* ================================================================ two runs
\* train followed by predict_next_days, run twice on the same observations
\* with the same model type and count.  scikit-learn's estimators are
\* functions of what they are given: the rows and targets of fit, the
\* random_state, and the row asked about.  A run draws its answers freely,
\* except that the same question put to the same estimator gets the answer
\* it got in the other run.

RandomState == 42      \* DecisionTreeRegressor(max_depth=5, random_state=42)

\* What the global random generator of a process hands to an estimator
\* made without a random_state.
Entropy == {7, 42}

\* rmse, mae and r2 of the evaluation: one number stands for the three.
Scores == {0, 1}

\* The observations the two runs are given.
RunInputs ==
    {Observations(MinHistory - 1, "daily", "zigzag"),
     Observations(MinHistory, "daily", "zigzag"),
     Observations(MinHistory, "tied", "zigzag"),
     Observations(MinHistory + 1, "hourly", "const"),
     Observations(SplitThreshold + 1, "daily", "zigzag"),
     Observations(SplitThreshold + 1, "daily", "nanlast")}

\* A tree made without random_state: the process's generator seeds it.
SeedUnset(type, entropy) == IF type = "tree" THEN entropy ELSE 0

\* __init__, lines 36-39: LinearRegression() has no random state, the tree
\* is made with random_state=42.
SeedOf(type, entropy) == IF type = "tree" THEN RandomState ELSE 0

\* One run: train (lines 88-128), then predict_next_days (137-183) when
\* train returned.  df is the frame prepare_features builds in both calls.
RunResult(df, d, seed, score, answers) ==
    IF TooShort(runs.observations)
    THEN [NoRun EXCEPT !.done = TRUE, !.seed = seed,
                       !.error = "insufficient_data"]
    ELSE LET sp == SplitOf(XOf(df), YOf(df))
             last == df[Len(df)]
             iterations == Loop(last, answers, 1, last.ma_7)
         IN  IF ~FitAccepts(sp.X_train, sp.y_train)
                \/ ~EvalAccepts(sp.X_test, sp.y_test)
                \/ (d >= 1 /\ ~FiniteRow(NextFeatures(last, 1, last.ma_7)))
             THEN [NoRun EXCEPT !.done = TRUE, !.seed = seed,
                                !.error = "invalid_input"]
             ELSE [done    |-> TRUE,
                   seed    |-> seed,
                   error   |-> "none",
                   metrics |-> [MetricsOf(sp) EXCEPT !.rmse = score,
                                    !.mae = score, !.r2_score = score],
                   answers |-> [i \in 1 .. d |->
                                  [asked |-> iterations[i].next_features,
                                   got   |-> answers[i]]],
                   points  |-> [i \in 1 .. d |-> iterations[i].point]]

\* The estimator is a function: a run that fits the same rows with the
\* same seed as the other run gets the same evaluation, and the same
\* answer to every row it asks about again.
SameEstimator(res, other) ==
    (other.done /\ other.error = "none" /\ res.error = "none"
       /\ other.seed = res.seed) =>
        /\ res.metrics = other.metrics
        /\ \A i \in DOMAIN res.answers : \A j \in DOMAIN other.answers :
             res.answers[i].asked = other.answers[j].asked =>
                res.answers[i].got = other.answers[j].got

Run(k) ==
    /\ ~runs.out[k].done
    /\ \E entropy \in Entropy, score \in Scores,
          answers \in [1 .. runs.days -> PredPrices] :
         LET res == RunResult(runs.table, runs.days,
                              SeedOf(runs.model_type, entropy), score, answers)
         IN  /\ SameEstimator(res, runs.out[3 - k])
             /\ runs' = [runs EXCEPT !.out[k] = res]
    /\ UNCHANGED outside_runs

\* The input of the two runs.  sort_values is a function of the frame it
\* is given: the arrangement it produces for these observations is picked
\* here, once.
InitRuns ==
    /\ ModelAtRest
    /\ NoRequests
    /\ NoCache
    /\ NoAlerts
    /\ \E h \in RunInputs, type \in ModelTypes, d \in 0 .. MaxDays :
         \E df \in (IF TooShort(h) THEN {<<>>} ELSE prepare_features(h)) :
            runs = [observations |-> h, model_type |-> type, days |-> d,
                    table |-> df, out |-> [k \in RunIds |-> NoRun]]

NextRuns == \E k \in RunIds : Run(k)

SpecRuns == InitRuns /\ [][NextRuns]_vars

MetricKeys == {"rmse", "mae", "r2_score", "training_samples", "test_samples"}

\* C22: in every reachable state of a PricePredictionModel, is_trained
\* implies that metrics holds a complete evaluation snapshot.
C22_TrainedHasMetrics == is_trained => DOMAIN metrics = MetricKeys

\* C23: predict_next_days rebuilds the feature table from the history it is
\* given: on a trained model a history of fewer than 7 observations fails
\* with the insufficient-data error, returns no points and leaves
\* is_trained, metrics and the fitted regressor unchanged.
C23_PredictRebuildsTable ==
    [][(op' = "predict" /\ is_trained) =>
          /\ Len(price_history') < MinHistory =>
                /\ error' = "insufficient_data"
                /\ predictions' = <<>>
                /\ table' = <<>>
                /\ UNCHANGED <<is_trained, metrics, fitted>>
          /\ error' = "none" =>
                /\ Len(table') = Len(price_history')
                /\ {table'[i].price : i \in DOMAIN table'}
                      = {price_history'[i].price : i \in DOMAIN price_history'}]_vars

C23_Witness ==
    /\ op = "predict"
    /\ is_trained
    /\ train_succeeded
    /\ Len(price_history) = MinHistory - 1
    /\ Len(fitted.X) >= MinHistory
    /\ error = "insufficient_data"
    /\ predictions = <<>>

\* C24: the price-history route attempts a forecast only when prediction is
\* requested and at least 7 observations were fetched; otherwise, and
\* whenever the forecast raises, it answers 200 with the history and
\* predictions null, with prediction_error in the error case only, and
\* never with metrics or plot_url of a failed forecast.
C24_RouteAnswers ==
    \A r \in Requests :
        /\ req[r].calls # <<>> => (req[r].predict /\ req[r].rows >= 7)
        /\ req[r].pc = "done" =>
             /\ req[r].response.status = 200
             /\ {"history", "predictions"} \subseteq req[r].response.keys
             /\ req[r].outcome # "report" =>
                  /\ req[r].response.predictions = <<>>
                  /\ req[r].response.metrics = NoMetrics
                  /\ req[r].response.plot_url = <<>>
                  /\ req[r].response.keys \cap {"metrics", "plot_url"} = {}
                  /\ ("prediction_error" \in req[r].response.keys)
                        = (req[r].calls # <<>>)

C24_Witness ==
    \E r, q \in Requests :
        /\ req[r].pc = "done"
        /\ req[r].predict
        /\ req[r].rows = 6
        /\ req[r].calls = <<>>
        /\ req[q].pc = "done"
        /\ req[q].outcome = "invalid_input"
        /\ req[q].response.prediction_error = "invalid_input"

\* ======================================================= CryptoAPIService
\* The TTL cache of src/services/crypto_api.py and the four fetch
\* operations that go through it.

MaxEntries == 2        \* the calls made fill at most MaxEntries cache keys

TtlPrice == 30         \* 'price': 30
TtlHistory == 300      \* 'history': 300
TtlToplist == 300      \* 'toplist': 300
TtlMetadata == 60      \* 'metadata': 60
TtlDefault == 60       \* self._cache_ttl.get(cache_type, 60)

\* The instants at which the service is called: each TTL, and one second
\* off, is the distance of two of them.
Instants == {0, 1, TtlPrice, TtlMetadata, TtlHistory}

\* _get_cache_key: f"{cache_type}:{identifier}", kept as its parts.
get_cache_key(cache_type, identifier) == <<cache_type>> \o identifier

\* The fetch operations and the key each builds from its arguments.
Operations ==
    [get_crypto_price    |-> get_cache_key("price", <<"BTC">>),
     get_historical_data |-> get_cache_key("history", <<"BTC", "7", "days">>),
     get_top_cryptos     |-> get_cache_key("toplist", <<"10", "1">>),
     get_watchlist_data  |-> get_cache_key("metadata", <<"BTC">>)]

\* get_crypto_with_logo keeps its results under the type 'asset', which
\* the TTL table does not list.
OtherKey == get_cache_key("asset", <<"BTC">>)

Keys == {Operations[o] : o \in DOMAIN Operations} \cup {OtherKey}

\* cache_key.split(':')[0] and self._cache_ttl.get(cache_type, 60)
TtlOf(key) ==
    LET cache_type == Head(key)
    IN  CASE cache_type = "price"    -> TtlPrice
          [] cache_type = "history"  -> TtlHistory
          [] cache_type = "toplist"  -> TtlToplist
          [] cache_type = "metadata" -> TtlMetadata
          [] OTHER                   -> TtlDefault

\* An entry served up to and including the instant it reaches its TTL.
FreshUpTo(age, ttl) == age <= ttl

\* _get_from_cache, line 41: time.time() - timestamp < ttl
Fresh(age, ttl) == age < ttl

Without(c, key) == [k \in DOMAIN c \ {key} |-> c[k]]

\* _get_from_cache(cache_key) at time t: what it returns and the cache it
\* leaves.
get_from_cache(c, key, t) ==
    IF key \in DOMAIN c
    THEN IF Fresh(t - c[key].timestamp, TtlOf(key))
         THEN [data |-> c[key].data, cache |-> c]
         ELSE [data |-> None, cache |-> Without(c, key)]
    ELSE [data |-> None, cache |-> c]

\* _set_cache(cache_key, data) at time t.
set_cache(c, key, data, t) ==
    [k \in DOMAIN c \cup {key} |->
        IF k = key THEN [data |-> data, timestamp |-> t] ELSE c[k]]

\* What an operation can find in the HTTP response: a request error, a
\* body without the data field, a data field that lists nothing, or data.
Responses == {"error", "missing", "nothing", "data"}

\* Python's truth value of a cached value: None, [] and {} are false.
Truthy(data) == data \notin {None, "empty"}

\* What each operation returns for a response, and whether it passes the
\* value to _set_cache first.
Parsed(o, response) ==
    CASE response = "data" -> [result |-> "full", stored |-> TRUE]
      [] response = "error" ->
            [result |-> IF o = "get_crypto_price" THEN None ELSE "empty",
             stored |-> FALSE]
      [] response = "missing" ->
            [result |-> IF o = "get_crypto_price" THEN None ELSE "empty",
             stored |-> o = "get_watchlist_data"]
      [] OTHER ->
            [result |-> IF o = "get_crypto_price" THEN None ELSE "empty",
             stored |-> o # "get_crypto_price"]

outside_cache == <<model_vars, req_vars, runs, alert_vars>>

\* The callers use few keys: a call with a new key is made while there is
\* room for it.
Room(key) == key \in DOMAIN cache \/ Cardinality(DOMAIN cache) < MaxEntries

\* get_crypto_price, get_historical_data, get_top_cryptos and
\* get_watchlist_data: the cached value is returned when it is true,
\* otherwise the API is asked and the parsed result stored.
Fetch(o) ==
    LET key == Operations[o]
        got == get_from_cache(cache, key, now)
    IN  /\ Room(key)
        /\ IF Truthy(got.data)
           THEN /\ cache' = got.cache
                /\ last_call' = [op |-> o, key |-> key, http |-> FALSE,
                                 served |-> TRUE,
                                 age |-> now - cache[key].timestamp,
                                 result |-> got.data]
           ELSE \E response \in Responses :
                  LET p == Parsed(o, response)
                  IN  /\ cache' = IF p.stored
                                  THEN set_cache(got.cache, key, p.result, now)
                                  ELSE got.cache
                      /\ last_call' = [op |-> o, key |-> key, http |-> TRUE,
                                       served |-> FALSE, age |-> 0,
                                       result |-> p.result]
        /\ UNCHANGED now
        /\ UNCHANGED outside_cache

\* get_crypto_with_logo stores what it found: _set_cache with its key.
SetCache(key, data) ==
    /\ Room(key)
    /\ cache' = set_cache(cache, key, data, now)
    /\ last_call' = [op |-> "_set_cache", key |-> key, http |-> FALSE,
                     served |-> FALSE, age |-> 0, result |-> None]
    /\ UNCHANGED now
    /\ UNCHANGED outside_cache

\* get_crypto_with_logo looks its key up: _get_from_cache.
GetFromCache(key) ==
    LET got == get_from_cache(cache, key, now)
    IN  /\ cache' = got.cache
        /\ last_call' = [op |-> "_get_from_cache", key |-> key,
                         http |-> FALSE, served |-> got.data # None,
                         age |-> IF got.data # None
                                 THEN now - cache[key].timestamp ELSE 0,
                         result |-> got.data]
        /\ UNCHANGED now
        /\ UNCHANGED outside_cache

\* Time passes between two calls.
Advance ==
    /\ \E t \in Instants : t > now /\ now' = t
    /\ UNCHANGED <<cache, last_call>>
    /\ UNCHANGED outside_cache

InitCache ==
    ModelAtRest /\ NoRequests /\ NoRuns /\ NoCache /\ NoAlerts

NextCache ==
    \/ \E o \in DOMAIN Operations : Fetch(o)
    \/ SetCache(OtherKey, "full")
    \/ GetFromCache(OtherKey)
    \/ Advance

SpecCache == InitCache /\ [][NextCache]_vars

\* ================================================ claims about the cache
\* The TTLs as documented: 30 s price, 300 s history and toplist, 60 s
\* metadata and every other type.
DocumentedTtl(key) ==
    CASE Head(key) = "price"    -> 30
      [] Head(key) = "history"  -> 300
      [] Head(key) = "toplist"  -> 300
      [] OTHER                  -> 60

\* C25: the service never serves a cache entry whose age is at or beyond
\* the TTL of its type, and an entry found expired is removed by the
\* access that finds it.
C25_NoExpiredServed ==
    /\ [](last_call.served =>
            /\ last_call.age < DocumentedTtl(last_call.key)
            /\ last_call.result # None)
    /\ [][\A key \in Keys :
            (/\ now' = now
             /\ last_call'.key = key
             /\ last_call'.op # "_set_cache"
             /\ key \in DOMAIN cache
             /\ now - cache[key].timestamp >= DocumentedTtl(key)) =>
                /\ ~last_call'.served
                /\ key \in DOMAIN cache' => cache'[key].timestamp = now]_vars

C25_Witness ==
    /\ last_call.served
    /\ last_call.op = "get_historical_data"
    /\ last_call.age = 299
    /\ \E key \in DOMAIN cache : now - cache[key].timestamp >= DocumentedTtl(key)

\* C26: once a result is stored, a repeat call of the same operation with
\* the same key within the TTL returns the stored value without a new HTTP
\* request, whatever the value: full or empty.
C26_RepeatServedFromCache ==
    [][\A o \in DOMAIN Operations :
         (/\ now' = now
          /\ last_call'.op = o
          /\ Operations[o] \in DOMAIN cache
          /\ now - cache[Operations[o]].timestamp < DocumentedTtl(Operations[o])) =>
             /\ ~last_call'.http
             /\ last_call'.result = cache[Operations[o]].data]_vars

\* ------------------------------------------------------- check_all_alerts
\* The background task reads every watchlist item and, item by item, the
\* latest price and the prices of the last two days, oldest first.

MaxItems == 3

\* An optional value: None is <<>>, a value v is <<v>>.
Nothing == <<>>
Some(v) == <<v>>

\* item['alert_percent']: a number, or a value float() refuses.
AlertPercents == {Nothing, Some(0), Some(5)}

\* What get_price_history(crypto_id, days=2) returns, prices only.
Histories ==
    {<<>>, <<100>>, <<100, 100>>, <<100, 104>>, <<100, 105>>, <<100, 95>>,
     <<0, 100>>, <<100, 104, 105>>, <<105, 100, 105>>}

\* What get_latest_price returns beside that history: the newest row, a
\* row older than two days when the history is empty, or None.
LatestOf(h) ==
    IF h = <<>> THEN {Nothing, Some(100)}
    ELSE {Nothing, Some(h[Len(h)])}

\* ((current_price - previous_price) / previous_price) * 100, exactly.
PercentChange(current_price, previous_price) ==
    Rat((current_price - previous_price) * 100, previous_price)

ExceedsStrictly(percent_change, alert_percent) ==
    Abs(percent_change.n) > alert_percent * percent_change.d

\* abs(percent_change) >= alert_percent
Exceeds(percent_change, alert_percent) ==
    Abs(percent_change.n) >= alert_percent * percent_change.d

AlertType(percent_change) ==
    IF percent_change.n > 0 THEN "increase" ELSE "decrease"

\* The item after the reads and the comparison, before any notification.
Evaluated(alert_percent, latest, h, log_ok) ==
    LET seen == [NoItem EXCEPT !.evaluated = TRUE,
                               !.alert_percent = alert_percent,
                               !.latest = latest, !.history = h]
    IN  IF alert_percent = Nothing THEN [seen EXCEPT !.raised = TRUE]
        ELSE IF latest = Nothing THEN seen
        ELSE IF Len(h) < 2 THEN seen
        ELSE IF h[1] = 0 THEN [seen EXCEPT !.raised = TRUE]
        ELSE LET percent_change == PercentChange(latest[1], h[1])
             IN  IF Exceeds(percent_change, alert_percent[1])
                 THEN [seen EXCEPT !.triggered = TRUE,
                                   !.alert_type = AlertType(percent_change),
                                   !.logged = log_ok]
                 ELSE seen

ResumeOuter(raised) == IF raised THEN "done" ELSE "loop"

\* Where the task goes after an item: the except of the inner try ends the
\* item, never the loop.
Resume(raised) == "loop"

\* What the alert task leaves alone.
outside_alerts ==
    <<model_vars, req_vars, runs, cache_vars, get_vars, add_vars>>

\* db.get_all_watchlist_items(): none, and the results are returned as they
\* are, or some, and the loop starts.
StartCheck ==
    /\ task.pc = "idle"
    /\ \E n \in 0 .. MaxItems :
         task' = [task EXCEPT !.items = n,
                              !.pc = IF n = 0 THEN "done" ELSE "loop"]
    /\ UNCHANGED outside_alerts

\* The loop takes the next item and counts it.
Count ==
    /\ task.pc = "loop"
    /\ task.index < task.items
    /\ task' = [task EXCEPT !.index = @ + 1, !.results.checked = @ + 1,
                            !.item = NoItem, !.pc = "item"]
    /\ UNCHANGED outside_alerts

\* The reads, the comparison and, when it is met, the count and the log.
Evaluate ==
    /\ task.pc = "item"
    /\ \E alert_percent \in AlertPercents, h \in Histories,
          log_ok \in BOOLEAN :
         \E latest \in LatestOf(h) :
            LET it == Evaluated(alert_percent, latest, h, log_ok)
            IN  task' =
                  [task EXCEPT
                     !.item = it,
                     !.results.triggered = IF it.triggered THEN @ + 1 ELSE @,
                     !.results.errors = IF it.raised THEN @ + 1 ELSE @,
                     !.pc = IF it.triggered THEN "notify"
                            ELSE Resume(it.raised)]
    /\ UNCHANGED outside_alerts

\* The preferences, the address, the names and the email of a triggered
\* alert.
Notify ==
    /\ task.pc = "notify"
    /\ \E preferences \in {None, "on", "off"}, user_email \in BOOLEAN,
          crypto_info \in BOOLEAN, send \in {"sent", "refused", "raised"} :
         LET wanted == preferences = "on" /\ user_email
             raised == wanted /\ (~crypto_info \/ send = "raised")
             called == wanted /\ crypto_info
             email_sent == called /\ send = "sent"
         IN  task' =
               [task EXCEPT
                  !.item.emailed = IF called THEN task.item.alert_type
                                   ELSE None,
                  !.item.raised = raised,
                  !.results.emails_sent = IF email_sent THEN @ + 1 ELSE @,
                  !.results.errors = IF raised THEN @ + 1 ELSE @,
                  !.pc = Resume(raised)]
    /\ UNCHANGED outside_alerts

\* The loop is over: return results.
Return ==
    /\ task.pc = "loop"
    /\ task.index = task.items
    /\ task' = [task EXCEPT !.pc = "done"]
    /\ UNCHANGED outside_alerts

InitAlerts == ModelAtRest /\ NoRequests /\ NoRuns /\ NoCache /\ NoAlerts

NextAlerts ==
    \/ StartCheck
    \/ Count
    \/ Evaluate
    \/ Notify
    \/ Return

SpecAlerts == InitAlerts /\ [][NextAlerts]_vars

\* ------------------------------------------- claims about check_all_alerts

C28_CountersOrdered ==
    /\ [](LET r == task.results
          IN  /\ r.emails_sent <= r.triggered
              /\ r.triggered <= r.checked
              /\ r.checked <= task.items
              /\ task.pc = "done" => r.checked = task.items)
    /\ [][task.pc \in {"item", "notify"} =>
            IF task'.item.raised
            THEN /\ task'.results.errors = task.results.errors + 1
                 /\ task'.pc = "loop"
            ELSE task'.results.errors = task.results.errors]_vars

\* A returned run of several items, one of which raised before the last
\* one was checked, another of which was emailed.
C28_Witness ==
    /\ task.pc = "done"
    /\ task.items >= 2
    /\ task.results.errors >= 1
    /\ task.results.emails_sent >= 1
    /\ task.item.evaluated
    /\ ~task.item.raised

\* ------------------------------------------------------ GET /api/watchlist
\* One user, one watched crypto, requests one after the other. The route
\* evaluates the alert threshold of the item on every request.

MaxGets == 3

\* item['change_24h'] and item['alert_percent'], in percent.
Changes == {-10, 0, 4, 10}
Thresholds == {0, 5}

\* db.has_recent_alert(user_id, api_crypto_id) as its caller reads it: an
\* alert for the pair is in the log.
has_recent_alert(log) == log # <<>>

\* 'increase' if change >= threshold else 'decrease'
AlertTypeOf(change, threshold) ==
    IF change >= threshold THEN "increase" ELSE "decrease"

\* if threshold and abs(change) >= threshold and api_crypto_id
Triggered(change, threshold) ==
    threshold # 0 /\ Abs(change) >= threshold

\* What the routes of the watchlist leave alone.
outside_get == <<model_vars, req_vars, runs, cache_vars, task, add_vars>>

\* One request. notifying: the preferences allow price-alert emails and an
\* address is known. send: send_price_alert returns True or False, or
\* raises. log: log_alert inserts the row, or does not (it takes no
\* api_crypto_id, symbol or name, and it swallows a failed insert); either
\* way the except around the block ends the evaluation silently.
GetWatchlist ==
    /\ last_get.count < MaxGets
    /\ \E change \in Changes, threshold \in Thresholds,
          notifying \in BOOLEAN,
          send \in {"sent", "refused", "raised"},
          log \in {"logged", "refused"} :
         LET asked == notifying /\ Triggered(change, threshold)
             recent == asked /\ has_recent_alert(alerts_log)
             sending == asked /\ ~recent
             alert_type == AlertTypeOf(change, threshold)
             emailed == sending /\ send = "sent"
             logged == sending /\ send # "raised" /\ log = "logged"
         IN  /\ outbox' = IF emailed THEN Append(outbox, alert_type)
                          ELSE outbox
             /\ alerts_log' = IF logged THEN Append(alerts_log, alert_type)
                              ELSE alerts_log
             /\ last_get' = [count |-> last_get.count + 1, change |-> change,
                             threshold |-> threshold, recent |-> recent,
                             emailed |-> emailed, logged |-> logged]
    /\ UNCHANGED outside_get

InitGets == ModelAtRest /\ NoRequests /\ NoRuns /\ NoCache /\ NoAlerts

NextGets == GetWatchlist

SpecGets == InitGets /\ [][NextGets]_vars

\* C29: a request sends a price-alert email only when no alert is logged
\* for the pair, every email sent is followed by a logged alert, and so
\* requests repeated while the threshold stays exceeded send one email.
C29_OneEmailPerAlert ==
    /\ [][Len(outbox') > Len(outbox) =>
            /\ alerts_log = <<>>
            /\ Len(alerts_log') > Len(alerts_log)]_vars
    /\ [](Len(outbox) <= 1)

\* ------------------------------------------------- POST /api/watchlist/add
\* Two requests of one user, served by two threads: each checks that the
\* crypto is not watched yet and then inserts the row.

Cryptos == {"BTC", "ETH", "SOL"}

\* db.is_in_watchlist_by_api_id(user_id, api_crypto_id) as its caller
\* reads it: the user has a row for that crypto.
is_in_watchlist_by_api_id(rows, api_crypto_id) ==
    \E i \in DOMAIN rows : rows[i] = api_crypto_id

\* What the add requests leave alone.
outside_add == <<model_vars, req_vars, runs, cache_vars, task, get_vars>>

\* The request resolves its crypto and asks whether it is watched: it
\* answers 400 when it is.
CheckWatched(r) ==
    /\ add[r].pc = "idle"
    /\ \E api_crypto_id \in Cryptos :
         LET watched == is_in_watchlist_by_api_id(watchlist, api_crypto_id)
         IN  add' = [add EXCEPT ![r] =
                       [pc |-> IF watched THEN "done" ELSE "checked",
                        api_crypto_id |-> api_crypto_id,
                        watched |-> watched,
                        status |-> IF watched THEN 400 ELSE 0,
                        inserted |-> FALSE]]
    /\ UNCHANGED watchlist
    /\ UNCHANGED outside_add

\* db.add_to_watchlist: the row is inserted and the request answers 201,
\* or nothing is (the call raises, or the failed insert is swallowed and
\* None comes back) and it answers 500.
Insert(r) ==
    /\ add[r].pc = "checked"
    /\ \E row \in BOOLEAN :
         /\ watchlist' = IF row THEN Append(watchlist, add[r].api_crypto_id)
                         ELSE watchlist
         /\ add' = [add EXCEPT ![r].pc = "done", ![r].inserted = row,
                               ![r].status = IF row THEN 201 ELSE 500]
    /\ UNCHANGED outside_add

\* The user starts with nothing watched, or with one crypto watched.
InitAdds ==
    /\ ModelAtRest
    /\ NoRequests
    /\ NoRuns
    /\ NoCache
    /\ NoTask
    /\ NoGets
    /\ watchlist \in {<<>>, <<"BTC">>}
    /\ add = [r \in Requests |-> IdleAdd]

NextAdds ==
    \E r \in Requests :
        \/ CheckWatched(r)
        \/ Insert(r)

SpecAdds == InitAdds /\ [][NextAdds]_vars

====
